---- MODULE Spec2Model ----
(***************************************************************************)
(* US holiday travel dashboard (analysis.py): the data pipeline.           *)
(*                                                                         *)
(* Three loaders (NOAA temperature file, airport passenger CSV, flight     *)
(* delay CSV) aggregate their input to one row per state; combine_datasets *)
(* left-joins them on the temperature table; main() runs them in sequence, *)
(* writes the combined CSV and then the HTML dashboard.                    *)
(*                                                                         *)
(* Text that the code slices, strips, pads or sorts is a sequence of       *)
(* one-character strings ("001" is <<"0","0","1">>).  A float is a record  *)
(* [k, n, d]: the exact rational n/d in lowest terms (k = "num"), or the   *)
(* IEEE values NaN (k = "nan") and +/-infinity (k = "inf").  A DataFrame   *)
(* is a sequence of row records, in row order.                             *)
(***************************************************************************)
EXTENDS Integers, Sequences, FiniteSets

VARIABLES
    pc,             \* position of the run
    tempFile,       \* the NOAA temperature file   [exists, lines]
    passFile,       \* the passenger CSV           [exists, columns, rows]
    delayFile,      \* the flight delay CSV        [exists, columns, rows]
    df,             \* the loader's local df: the rows read from its file
    statewide,      \* load_noaa_temperature_data: the filtered rows
    fallback,       \* load_noaa_temperature_data: the division 01 branch ran
    dec_avg,        \* load_noaa_temperature_data: the per-state means
    state_passengers, \* load_airport_passengers: the per-state sums
    state_delays,   \* load_flight_delays: the per-state sums
    temp_df,        \* main: result of load_noaa_temperature_data
    passengers_df,  \* main: result of load_airport_passengers
    delays_df,      \* main: result of load_flight_delays
    combined_df,    \* main: result of combine_datasets
    output_csv,     \* the combined CSV snapshot on disk (<<>>: not written)
    dashboard,      \* the HTML dashboard on disk (FALSE: not written)
    error,          \* the exception that ended the run ("none": none)
    at,             \* loaders run side by side: the position of each
    df_passengers,  \* loaders run side by side: load_airport_passengers' df
    df_delays       \* loaders run side by side: load_flight_delays' df

vars == <<pc, tempFile, passFile, delayFile, df, statewide, fallback, dec_avg,
          state_passengers, state_delays,
          temp_df, passengers_df, delays_df, combined_df, output_csv, dashboard,
          error, at, df_passengers, df_delays>>

-----------------------------------------------------------------------------
(* Text: characters, slices, str.lstrip, str.zfill, int(), sort order.     *)

Alphabet ==
    <<"0","1","2","3","4","5","6","7","8","9",
      "A","B","C","D","E","F","G","H","I","J","K","L","M",
      "N","O","P","Q","R","S","T","U","V","W","X","Y","Z">>

Digits == {"0","1","2","3","4","5","6","7","8","9"}

\* ord(c): the position of c in the character set, for comparisons
CharRank(c) == CHOOSE i \in 1..Len(Alphabet) : Alphabet[i] = c

DigitVal(c) == CharRank(c) - 1

Min(a, b) == IF a < b THEN a ELSE b

\* s[a:b] of Python: clamped to the string, never an error
PySlice(s, a, b) ==
    IF a >= Min(b, Len(s)) THEN <<>>
    ELSE [i \in 1..(Min(b, Len(s)) - a) |-> s[a + i]]

\* s[i] of Python for i >= 0: an IndexError past the end
IndexInRange(s, i) == i < Len(s)

IsDigits(s) == Len(s) > 0 /\ \A i \in 1..Len(s) : s[i] \in Digits

RECURSIVE IntOf(_)
\* int(s) for a string of decimal digits
IntOf(s) ==
    IF s = <<>> THEN 0
    ELSE 10 * IntOf(SubSeq(s, 1, Len(s) - 1)) + DigitVal(s[Len(s)])

RECURSIVE LStrip0(_)
\* s.lstrip('0')
LStrip0(s) ==
    IF s # <<>> /\ s[1] = "0" THEN LStrip0(Tail(s)) ELSE s

RECURSIVE ZFill(_, _)
\* s.zfill(width) for an unsigned s
ZFill(s, width) ==
    IF Len(s) >= width THEN s ELSE ZFill(<<"0">> \o s, width)

RECURSIVE LexLess(_, _)
\* s < t of Python strings
LexLess(s, t) ==
    IF t = <<>> THEN FALSE
    ELSE IF s = <<>> THEN TRUE
    ELSE IF s[1] # t[1] THEN CharRank(s[1]) < CharRank(t[1])
    ELSE LexLess(Tail(s), Tail(t))

RECURSIVE SortKeys(_)
\* the keys of a groupby, in its sorted order
SortKeys(S) ==
    IF S = {} THEN <<>>
    ELSE LET m == CHOOSE x \in S : \A y \in S \ {x} : LexLess(x, y)
         IN  <<m>> \o SortKeys(S \ {m})

-----------------------------------------------------------------------------
(* Floats.                                                                 *)

Abs(x) == IF x < 0 THEN -x ELSE x

RECURSIVE GCD(_, _)
GCD(a, b) == IF b = 0 THEN a ELSE GCD(b, a % b)

NaN == [k |-> "nan", n |-> 0, d |-> 1]

Inf(sign) == [k |-> "inf", n |-> sign, d |-> 1]

\* the float n/d for d > 0
Frac(n, d) ==
    LET g == GCD(Abs(n), d)
    IN  [k |-> "num", n |-> n \div g, d |-> d \div g]

Num(n) == Frac(n, 1)

IsNaN(x) == x.k = "nan"

IsFinite(x) == x.k = "num"

\* a / b on two integer-valued columns (numpy: no exception on b = 0)
Divide(a, b) ==
    IF b = 0 THEN (IF a = 0 THEN NaN ELSE Inf(IF a > 0 THEN 1 ELSE -1))
    ELSE IF b > 0 THEN Frac(a, b) ELSE Frac(-a, -b)

\* x + y on floats
FAdd(x, y) ==
    IF IsNaN(x) \/ IsNaN(y) THEN NaN
    ELSE IF x.k = "inf" /\ y.k = "inf" THEN (IF x.n = y.n THEN x ELSE NaN)
    ELSE IF x.k = "inf" THEN x
    ELSE IF y.k = "inf" THEN y
    ELSE Frac(x.n * y.d + y.n * x.d, x.d * y.d)

\* x == y on floats (NaN equals nothing)
FEq(x, y) == ~IsNaN(x) /\ ~IsNaN(y) /\ x = y

\* Series.fillna(v) on one cell
FillNa(x, v) == IF IsNaN(x) THEN v ELSE x

RECURSIVE SumSeq(_)
SumSeq(s) == IF s = <<>> THEN 0 ELSE s[1] + SumSeq(Tail(s))

\* Series.mean() of a non-empty group of numbers
Mean(s) == Divide(SumSeq(s), Len(s))

-----------------------------------------------------------------------------
(* DataFrame helpers.                                                      *)

\* df[mask]: the rows whose index is in I, in row order
KeepRows(rows, I) ==
    LET F[i \in 0..Len(rows)] ==
            IF i = 0 THEN <<>>
            ELSE IF i \in I THEN Append(F[i - 1], rows[i]) ELSE F[i - 1]
    IN  F[Len(rows)]

-----------------------------------------------------------------------------
(* State Reference Table.                                                  *)

STATE_FIPS ==
    <<
        <<<<"0","1">>, <<"A","L">>, "Alabama">>,
        <<<<"0","2">>, <<"A","Z">>, "Arizona">>,
        <<<<"0","3">>, <<"A","R">>, "Arkansas">>,
        <<<<"0","4">>, <<"C","A">>, "California">>,
        <<<<"0","5">>, <<"C","O">>, "Colorado">>,
        <<<<"0","6">>, <<"C","T">>, "Connecticut">>,
        <<<<"0","7">>, <<"D","E">>, "Delaware">>,
        <<<<"0","8">>, <<"F","L">>, "Florida">>,
        <<<<"0","9">>, <<"G","A">>, "Georgia">>,
        <<<<"1","0">>, <<"I","D">>, "Idaho">>,
        <<<<"1","1">>, <<"I","L">>, "Illinois">>,
        <<<<"1","2">>, <<"I","N">>, "Indiana">>,
        <<<<"1","3">>, <<"I","A">>, "Iowa">>,
        <<<<"1","4">>, <<"K","S">>, "Kansas">>,
        <<<<"1","5">>, <<"K","Y">>, "Kentucky">>,
        <<<<"1","6">>, <<"L","A">>, "Louisiana">>,
        <<<<"1","7">>, <<"M","E">>, "Maine">>,
        <<<<"1","8">>, <<"M","D">>, "Maryland">>,
        <<<<"1","9">>, <<"M","A">>, "Massachusetts">>,
        <<<<"2","0">>, <<"M","I">>, "Michigan">>,
        <<<<"2","1">>, <<"M","N">>, "Minnesota">>,
        <<<<"2","2">>, <<"M","S">>, "Mississippi">>,
        <<<<"2","3">>, <<"M","O">>, "Missouri">>,
        <<<<"2","4">>, <<"M","T">>, "Montana">>,
        <<<<"2","5">>, <<"N","E">>, "Nebraska">>,
        <<<<"2","6">>, <<"N","V">>, "Nevada">>,
        <<<<"2","7">>, <<"N","H">>, "New Hampshire">>,
        <<<<"2","8">>, <<"N","J">>, "New Jersey">>,
        <<<<"2","9">>, <<"N","M">>, "New Mexico">>,
        <<<<"3","0">>, <<"N","Y">>, "New York">>,
        <<<<"3","1">>, <<"N","C">>, "North Carolina">>,
        <<<<"3","2">>, <<"N","D">>, "North Dakota">>,
        <<<<"3","3">>, <<"O","H">>, "Ohio">>,
        <<<<"3","4">>, <<"O","K">>, "Oklahoma">>,
        <<<<"3","5">>, <<"O","R">>, "Oregon">>,
        <<<<"3","6">>, <<"P","A">>, "Pennsylvania">>,
        <<<<"3","7">>, <<"R","I">>, "Rhode Island">>,
        <<<<"3","8">>, <<"S","C">>, "South Carolina">>,
        <<<<"3","9">>, <<"S","D">>, "South Dakota">>,
        <<<<"4","0">>, <<"T","N">>, "Tennessee">>,
        <<<<"4","1">>, <<"T","X">>, "Texas">>,
        <<<<"4","2">>, <<"U","T">>, "Utah">>,
        <<<<"4","3">>, <<"V","T">>, "Vermont">>,
        <<<<"4","4">>, <<"V","A">>, "Virginia">>,
        <<<<"4","5">>, <<"W","A">>, "Washington">>,
        <<<<"4","6">>, <<"W","V">>, "West Virginia">>,
        <<<<"4","7">>, <<"W","I">>, "Wisconsin">>,
        <<<<"4","8">>, <<"W","Y">>, "Wyoming">>,
        <<<<"5","0">>, <<"A","K">>, "Alaska">>,
        <<<<"5","1">>, <<"H","I">>, "Hawaii">>
    >>


\* None, as a cell of a text column
None == <<"None">>

\* STATE_FIPS.get(x, (None, None)): <<code, name>> of key x, never an error
StateFipsGet(x) ==
    IF \E i \in 1..Len(STATE_FIPS) : STATE_FIPS[i][1] = x
    THEN LET i == CHOOSE j \in 1..Len(STATE_FIPS) : STATE_FIPS[j][1] = x
         IN  <<STATE_FIPS[i][2], STATE_FIPS[i][3]>>
    ELSE <<None, "None">>

HI == <<"H","I">>

-----------------------------------------------------------------------------
(* load_noaa_temperature_data.                                             *)
(*                                                                         *)
(* A line of the file is [ntokens, code, nov, dec, numeric]: the number of *)
(* whitespace-separated tokens, the first token, the 11th and 12th of the  *)
(* monthly values, and whether all twelve monthly tokens parse as floats.  *)

current_year == 2024

years_range == (current_year - 4)..current_year

\* the line is not read: fewer than 13 tokens
LineSkipped(line) == ~(line.ntokens >= 13)

\* the exception the loop body raises on the line ("none": none)
LineError(line) ==
    IF LineSkipped(line) THEN "none"
    ELSE IF ~IndexInRange(line.code, 5) THEN "IndexError"
    ELSE IF ~IsDigits(PySlice(line.code, 6, 10)) THEN "ValueError"
    ELSE IF ~line.numeric THEN "ValueError"
    ELSE "none"

\* the dict appended to data_rows for the line
ParseLine(line) ==
    [code       |-> line.code,
     state_fips |-> PySlice(line.code, 0, 3),
     division   |-> PySlice(line.code, 3, 5),
     year       |-> IntOf(PySlice(line.code, 6, 10)),
     nov        |-> line.nov,
     dec        |-> line.dec]

\* data_rows after the loop over the lines
DataRows(lines) ==
    LET kept == KeepRows(lines, {i \in 1..Len(lines) : ~LineSkipped(lines[i])})
    IN  [i \in 1..Len(kept) |-> ParseLine(kept[i])]

\* the exception of the first line that raises one ("none": none)
ReadError(file) ==
    IF ~file.exists THEN "FileNotFoundError"
    ELSE LET bad == {i \in 1..Len(file.lines) : LineError(file.lines[i]) # "none"}
         IN  IF bad = {} THEN "none"
             ELSE LineError(file.lines[CHOOSE i \in bad : \A j \in bad : i <= j])

\* mutant: the year window is not applied
DivisionRows_AnyYear(d, div) ==
    KeepRows(d, {i \in 1..Len(d) : d[i].division = div})

\* df[(df['division'] == div) & (df['year'].isin(years_range))]
DivisionRows(d, div) ==
    KeepRows(d, {i \in 1..Len(d) : d[i].division = div /\ d[i].year \in years_range})

\* an empty DataFrame has no columns: df['division'] is a KeyError
FilterError(d) == IF d = <<>> THEN "KeyError" ELSE "none"

\* mutant: a state without division 00 rows keeps its division 01 rows
Division00Rows_PerState(d) ==
    KeepRows(d, {i \in 1..Len(d) :
        /\ d[i].year \in years_range
        /\ \/ d[i].division = <<"0","0">>
           \/ /\ d[i].division = <<"0","1">>
              /\ \A j \in 1..Len(d) :
                   ~(/\ d[j].state_fips = d[i].state_fips
                     /\ d[j].division = <<"0","0">>
                     /\ d[j].year \in years_range)})

\* line 96: the division 00 rows of the window
Division00Rows(d) == DivisionRows(d, <<"0","0">>)

\* line 103: the division 01 rows of the window
Division01Rows(d) == DivisionRows(d, <<"0","1">>)

\* mutant: the division 01 branch is taken for one statewide row as well
NoStatewide_FewRows(sw) == Len(sw) <= 1

\* line 101: len(statewide) == 0
NoStatewide(sw) == Len(sw) = 0

\* statewide, after the division 01 branch
StatewideRows(d) ==
    IF NoStatewide(Division00Rows(d)) THEN Division01Rows(d) ELSE Division00Rows(d)

\* mutant: no grouping, one row per record
GroupMeans_PerRow(sw) ==
    [i \in 1..Len(sw) |->
        [state_fips |-> sw[i].state_fips,
         dec |-> Num(sw[i].dec),
         nov |-> Num(sw[i].nov)]]

\* statewide.groupby('state_fips').agg({'dec': 'mean', 'nov': 'mean'}).reset_index()
GroupMeans(sw) ==
    LET keys == SortKeys({sw[i].state_fips : i \in 1..Len(sw)})
        grp(key) == KeepRows(sw, {i \in 1..Len(sw) : sw[i].state_fips = key})
    IN  [j \in 1..Len(keys) |->
            LET g == grp(keys[j])
            IN  [state_fips |-> keys[j],
                 dec |-> Mean([i \in 1..Len(g) |-> g[i].dec]),
                 nov |-> Mean([i \in 1..Len(g) |-> g[i].nov])]]

\* mutant: the stripped FIPS is not padded again
StateFips2_NoPad(state_fips) == LStrip0(state_fips)

\* .str.lstrip('0').str.zfill(2)
StateFips2(state_fips) == ZFill(LStrip0(state_fips), 2)

\* the state_code / state_name columns, the notna filter and the rename
ResolveStates(means) ==
    LET rows == [j \in 1..Len(means) |->
                    [state_fips          |-> means[j].state_fips,
                     state_fips_2        |-> StateFips2(means[j].state_fips),
                     state_code          |-> StateFipsGet(StateFips2(means[j].state_fips))[1],
                     state_name          |-> StateFipsGet(StateFips2(means[j].state_fips))[2],
                     avg_dec_temperature |-> means[j].dec,
                     avg_nov_temperature |-> means[j].nov]]
    IN  KeepRows(rows, {j \in 1..Len(rows) : rows[j].state_code # None})

hawaii_row ==
    [state_code          |-> HI,
     state_name          |-> "Hawaii",
     avg_dec_temperature |-> Num(73),
     avg_nov_temperature |-> Num(75)]

\* dec_avg[['state_code', 'state_name', 'avg_dec_temperature', 'avg_nov_temperature']]
TempColumns(rows) ==
    [j \in 1..Len(rows) |->
        [state_code          |-> rows[j].state_code,
         state_name          |-> rows[j].state_name,
         avg_dec_temperature |-> rows[j].avg_dec_temperature,
         avg_nov_temperature |-> rows[j].avg_nov_temperature]]

\* mutant: the Hawaii row is appended without the test
WithHawaii_Always(avg) == TempColumns(avg) \o <<hawaii_row>>

\* the Hawaii branch and the returned columns
WithHawaii(avg) ==
    IF HI \notin {avg[j].state_code : j \in 1..Len(avg)}
    THEN TempColumns(avg) \o <<hawaii_row>>
    ELSE TempColumns(avg)

\* the exception load_noaa_temperature_data raises on the file ("none": none)
LoadTemperatureError(file) ==
    IF ReadError(file) # "none" THEN ReadError(file)
    ELSE FilterError(DataRows(file.lines))

\* the DataFrame load_noaa_temperature_data returns
LoadTemperature(file) ==
    WithHawaii(ResolveStates(GroupMeans(StatewideRows(DataRows(file.lines)))))

-----------------------------------------------------------------------------
(* load_airport_passengers.                                                *)
(*                                                                         *)
(* A CSV file is [exists, columns, rows]: columns says whether the header  *)
(* has every column the loader reads.                                      *)

\* pd.read_csv(filepath)
ReadCsvError(file) == IF ~file.exists THEN "FileNotFoundError" ELSE "none"

\* a column the loader reads is not in the frame
ColumnError(file) == IF ~file.columns THEN "KeyError" ELSE "none"

\* mutant: the last row of a state replaces the earlier ones
PassengerSums_Last(d) ==
    LET keys == SortKeys({d[i].state_code : i \in 1..Len(d)})
        grp(key) == KeepRows(d, {i \in 1..Len(d) : d[i].state_code = key})
    IN  [j \in 1..Len(keys) |->
            LET g == grp(keys[j])
            IN  [state_code     |-> keys[j],
                 nov_passengers |-> g[Len(g)].nov_passengers,
                 dec_passengers |-> g[Len(g)].dec_passengers]]

\* df.groupby('state_code').agg({'nov_passengers': 'sum', 'dec_passengers': 'sum'}).reset_index()
PassengerSums(d) ==
    LET keys == SortKeys({d[i].state_code : i \in 1..Len(d)})
        grp(key) == KeepRows(d, {i \in 1..Len(d) : d[i].state_code = key})
    IN  [j \in 1..Len(keys) |->
            LET g == grp(keys[j])
            IN  [state_code     |-> keys[j],
                 nov_passengers |-> SumSeq([i \in 1..Len(g) |-> g[i].nov_passengers]),
                 dec_passengers |-> SumSeq([i \in 1..Len(g) |-> g[i].dec_passengers])]]

\* the holiday_travel_volume column, and the returned columns
WithTravelVolume(sp) ==
    [j \in 1..Len(sp) |->
        [state_code            |-> sp[j].state_code,
         holiday_travel_volume |-> sp[j].nov_passengers + sp[j].dec_passengers,
         nov_passengers        |-> sp[j].nov_passengers,
         dec_passengers        |-> sp[j].dec_passengers]]

\* the exception load_airport_passengers raises on the file ("none": none)
LoadPassengersError(file) ==
    IF ReadCsvError(file) # "none" THEN ReadCsvError(file) ELSE ColumnError(file)

\* the DataFrame load_airport_passengers returns
LoadPassengers(file) == WithTravelVolume(PassengerSums(file.rows))

-----------------------------------------------------------------------------
(* load_flight_delays.                                                     *)

\* the weighted_delay and weighted_minutes columns
WeightedRows(d) ==
    [i \in 1..Len(d) |->
        [state_code        |-> d[i].state_code,
         total_flights     |-> d[i].total_flights,
         delayed_flights   |-> d[i].delayed_flights,
         cancelled_flights |-> d[i].cancelled_flights,
         weighted_delay    |-> d[i].delay_pct * d[i].total_flights,
         weighted_minutes  |-> d[i].avg_delay_minutes * d[i].delayed_flights]]

\* df.groupby('state_code').agg({... 'sum'}).reset_index()
DelaySums(d) ==
    LET keys == SortKeys({d[i].state_code : i \in 1..Len(d)})
        grp(key) == KeepRows(d, {i \in 1..Len(d) : d[i].state_code = key})
    IN  [j \in 1..Len(keys) |->
            LET g == grp(keys[j])
            IN  [state_code        |-> keys[j],
                 total_flights     |-> SumSeq([i \in 1..Len(g) |-> g[i].total_flights]),
                 delayed_flights   |-> SumSeq([i \in 1..Len(g) |-> g[i].delayed_flights]),
                 cancelled_flights |-> SumSeq([i \in 1..Len(g) |-> g[i].cancelled_flights]),
                 weighted_delay    |-> SumSeq([i \in 1..Len(g) |-> g[i].weighted_delay]),
                 weighted_minutes  |-> SumSeq([i \in 1..Len(g) |-> g[i].weighted_minutes])]]

\* mutant: the delay rate is divided by the delayed flights
AvgDelayPct_ByDelayed(r) == Divide(r.weighted_delay, r.delayed_flights)

\* weighted_delay / total_flights of one state
AvgDelayPct(r) == Divide(r.weighted_delay, r.total_flights)

\* weighted_minutes / delayed_flights of one state
AvgDelayMinutes(r) == Divide(r.weighted_minutes, r.delayed_flights)

\* the avg_delay_pct and avg_delay_minutes columns, and the returned columns
WithAverages(sd) ==
    [j \in 1..Len(sd) |->
        [state_code        |-> sd[j].state_code,
         avg_delay_pct     |-> AvgDelayPct(sd[j]),
         avg_delay_minutes |-> AvgDelayMinutes(sd[j]),
         total_flights     |-> sd[j].total_flights,
         delayed_flights   |-> sd[j].delayed_flights,
         cancelled_flights |-> sd[j].cancelled_flights]]

\* mutant: a failure of the delay loader is swallowed
LoadDelaysError_Swallowed(file) == "none"

\* the exception load_flight_delays raises on the file ("none": none)
LoadDelaysError(file) ==
    IF ReadCsvError(file) # "none" THEN ReadCsvError(file) ELSE ColumnError(file)

\* the DataFrame load_flight_delays returns
LoadDelays(file) == WithAverages(DelaySums(WeightedRows(file.rows)))

-----------------------------------------------------------------------------
(* combine_datasets.                                                       *)

RECURSIVE Concat(_)
\* the rows of a sequence of frames, one after the other
Concat(frames) ==
    IF frames = <<>> THEN <<>> ELSE frames[1] \o Concat(Tail(frames))

\* combined.merge(passengers_df, on='state_code', how='left')
MergePassengers(left, right) ==
    Concat([i \in 1..Len(left) |->
        LET m == KeepRows(right, {j \in 1..Len(right) :
                                    right[j].state_code = left[i].state_code})
        IN  IF m = <<>>
            THEN <<[state_code            |-> left[i].state_code,
                    state_name            |-> left[i].state_name,
                    avg_dec_temperature   |-> left[i].avg_dec_temperature,
                    avg_nov_temperature   |-> left[i].avg_nov_temperature,
                    holiday_travel_volume |-> NaN,
                    nov_passengers        |-> NaN,
                    dec_passengers        |-> NaN]>>
            ELSE [j \in 1..Len(m) |->
                   [state_code            |-> left[i].state_code,
                    state_name            |-> left[i].state_name,
                    avg_dec_temperature   |-> left[i].avg_dec_temperature,
                    avg_nov_temperature   |-> left[i].avg_nov_temperature,
                    holiday_travel_volume |-> Num(m[j].holiday_travel_volume),
                    nov_passengers        |-> Num(m[j].nov_passengers),
                    dec_passengers        |-> Num(m[j].dec_passengers)]]])

\* combined.merge(delays_df, on='state_code', how='left')
MergeDelays(left, right) ==
    Concat([i \in 1..Len(left) |->
        LET m == KeepRows(right, {j \in 1..Len(right) :
                                    right[j].state_code = left[i].state_code})
            l == left[i]
        IN  IF m = <<>>
            THEN <<[state_code            |-> l.state_code,
                    state_name            |-> l.state_name,
                    avg_dec_temperature   |-> l.avg_dec_temperature,
                    avg_nov_temperature   |-> l.avg_nov_temperature,
                    holiday_travel_volume |-> l.holiday_travel_volume,
                    nov_passengers        |-> l.nov_passengers,
                    dec_passengers        |-> l.dec_passengers,
                    avg_delay_pct         |-> NaN,
                    avg_delay_minutes     |-> NaN,
                    total_flights         |-> NaN,
                    delayed_flights       |-> NaN,
                    cancelled_flights     |-> NaN]>>
            ELSE [j \in 1..Len(m) |->
                   [state_code            |-> l.state_code,
                    state_name            |-> l.state_name,
                    avg_dec_temperature   |-> l.avg_dec_temperature,
                    avg_nov_temperature   |-> l.avg_nov_temperature,
                    holiday_travel_volume |-> l.holiday_travel_volume,
                    nov_passengers        |-> l.nov_passengers,
                    dec_passengers        |-> l.dec_passengers,
                    avg_delay_pct         |-> m[j].avg_delay_pct,
                    avg_delay_minutes     |-> m[j].avg_delay_minutes,
                    total_flights         |-> Num(m[j].total_flights),
                    delayed_flights       |-> Num(m[j].delayed_flights),
                    cancelled_flights     |-> Num(m[j].cancelled_flights)]]])

\* mutant: the avg_delay_pct column is left unfilled
FillMissing_VolumeOnly(c) ==
    [i \in 1..Len(c) |->
        [c[i] EXCEPT !.holiday_travel_volume = FillNa(@, Num(0))]]

\* the two fillna(0) of lines 196-197
FillMissing(c) ==
    [i \in 1..Len(c) |->
        [c[i] EXCEPT !.holiday_travel_volume = FillNa(@, Num(0)),
                     !.avg_delay_pct = FillNa(@, Num(0))]]

\* the DataFrame combine_datasets returns
CombineDatasets(p_df, d_df, t_df) ==
    FillMissing(MergeDelays(MergePassengers(t_df, p_df), d_df))

-----------------------------------------------------------------------------
(* Input files.                                                            *)

MaxTempLines == 2

\* all sequences over S of length at most n
SeqsUpTo(S, n) == UNION {[1..k -> S] : k \in 0..n}

\* state FIPS of the sample lines: Alabama and Hawaii
SampleFips == {<<"0","0","1">>, <<"0","5","1">>}

SampleDivisions == {<<"0","0">>, <<"0","1">>}

\* a year before the window, and its first and last year
SampleYears == {<<"2","0","1","9">>, <<"2","0","2","0">>, <<"2","0","2","4">>}

\* <<nov, dec>> of a sample line
SampleTemps == {<<40, 30>>, <<61, 50>>}

WellFormedLines ==
    {[ntokens |-> 13, code |-> f \o d \o <<"2">> \o y,
      nov |-> t[1], dec |-> t[2], numeric |-> TRUE] :
        f \in SampleFips, d \in SampleDivisions, y \in SampleYears, t \in SampleTemps}

\* a line of a year after the window, and lines of FIPS not in the table
OtherLines ==
    {[ntokens |-> 13, code |-> <<"0","0","1","0","0","2","2","0","2","5">>,
      nov |-> 40, dec |-> 30, numeric |-> TRUE],
     [ntokens |-> 13, code |-> <<"0","4","9","0","0","2","2","0","2","4">>,
      nov |-> 61, dec |-> 50, numeric |-> TRUE],
     [ntokens |-> 13, code |-> <<"0","0","0","0","0","2","2","0","2","4">>,
      nov |-> 61, dec |-> 50, numeric |-> TRUE],
     [ntokens |-> 13, code |-> <<"1","0","0","0","0","2","2","0","2","4">>,
      nov |-> 61, dec |-> 50, numeric |-> TRUE]}

\* a short line, a line with a non-numeric monthly value, a short first token
MalformedLines ==
    {[ntokens |-> 12, code |-> <<"0","0","1","0","0","2","2","0","2","4">>,
      nov |-> 40, dec |-> 30, numeric |-> TRUE],
     [ntokens |-> 13, code |-> <<"0","0","1","0","0","2","2","0","2","4">>,
      nov |-> 40, dec |-> 30, numeric |-> FALSE],
     [ntokens |-> 13, code |-> <<"0","0","1","0","0">>,
      nov |-> 40, dec |-> 30, numeric |-> TRUE]}

TempLines == WellFormedLines \cup OtherLines \cup MalformedLines

MissingTempFile == [exists |-> FALSE, lines |-> <<>>]

TempFiles ==
    {[exists |-> TRUE, lines |-> l] : l \in SeqsUpTo(TempLines, MaxTempLines)}
    \cup {MissingTempFile}

MissingCsvFile == [exists |-> FALSE, columns |-> FALSE, rows |-> <<>>]

\* a CSV file whose header lacks a column the loader reads
NoColumnCsvFile == [exists |-> TRUE, columns |-> FALSE, rows |-> <<>>]

AL == <<"A","L">>

CA == <<"C","A">>

TX == <<"T","X">>

MaxPassRows == 2

PassRows ==
    {[state_code |-> c, nov_passengers |-> n, dec_passengers |-> d] :
        c \in {CA, TX}, n \in {100, 200}, d \in {50, 75}}

PassFiles ==
    {[exists |-> TRUE, columns |-> TRUE, rows |-> r] :
        r \in SeqsUpTo(PassRows, MaxPassRows)}
    \cup {MissingCsvFile, NoColumnCsvFile}

MaxDelayRows == 2

DelayRows ==
    {[state_code |-> c, delay_pct |-> p[1], avg_delay_minutes |-> p[2],
      total_flights |-> t, delayed_flights |-> d, cancelled_flights |-> 2] :
        c \in {CA, TX}, p \in {<<10, 30>>, <<20, 45>>}, t \in {0, 100, 300},
        d \in {0, 10}}

DelayFiles ==
    {[exists |-> TRUE, columns |-> TRUE, rows |-> r] :
        r \in SeqsUpTo(DelayRows, MaxDelayRows)}
    \cup {MissingCsvFile, NoColumnCsvFile}

\* the files of a whole run: few rows each, so that the three can vary together
MaxMainRows == 1

MainTempLines ==
    {[ntokens |-> 13, code |-> <<"0","0","1","0","0","2","2","0","2","4">>,
      nov |-> 40, dec |-> 30, numeric |-> TRUE],
     [ntokens |-> 13, code |-> <<"0","5","1","0","0","2","2","0","2","4">>,
      nov |-> 61, dec |-> 50, numeric |-> TRUE]}
    \cup MalformedLines

MainTempFiles ==
    {[exists |-> TRUE, lines |-> l] : l \in SeqsUpTo(MainTempLines, MaxMainRows)}
    \cup {MissingTempFile}

MainPassRows ==
    {[state_code |-> c, nov_passengers |-> 100, dec_passengers |-> 50] :
        c \in {AL, TX}}

MainPassFiles ==
    {[exists |-> TRUE, columns |-> TRUE, rows |-> r] :
        r \in SeqsUpTo(MainPassRows, MaxMainRows)}
    \cup {MissingCsvFile, NoColumnCsvFile}

MainDelayRows ==
    {[state_code |-> c, delay_pct |-> 10, avg_delay_minutes |-> 30,
      total_flights |-> t[1], delayed_flights |-> t[2], cancelled_flights |-> 2] :
        c \in {AL, TX}, t \in {<<100, 10>>, <<0, 0>>}}

MainDelayFiles ==
    {[exists |-> TRUE, columns |-> TRUE, rows |-> r] :
        r \in SeqsUpTo(MainDelayRows, MaxMainRows)}
    \cup {MissingCsvFile, NoColumnCsvFile}

-----------------------------------------------------------------------------
(* State before a run: nothing read, nothing computed, nothing written.    *)

inputs == <<tempFile, passFile, delayFile>>

tempLocals == <<statewide, fallback, dec_avg>>

csvLocals == <<state_passengers, state_delays>>

results == <<temp_df, passengers_df, delays_df, combined_df>>

outputs == <<output_csv, dashboard>>

sideBySide == <<at, df_passengers, df_delays>>

\* no loader has started
NotStarted == [temp |-> "open", pass |-> "open", delay |-> "open"]

Fresh ==
    /\ df = <<>>
    /\ statewide = <<>>
    /\ fallback = FALSE
    /\ dec_avg = <<>>
    /\ state_passengers = <<>>
    /\ state_delays = <<>>
    /\ temp_df = <<>>
    /\ passengers_df = <<>>
    /\ delays_df = <<>>
    /\ combined_df = <<>>
    /\ output_csv = <<>>
    /\ dashboard = FALSE
    /\ error = "none"
    /\ at = NotStarted
    /\ df_passengers = <<>>
    /\ df_delays = <<>>

-----------------------------------------------------------------------------
(* The temperature loader, step by step.                                   *)

InitTemp ==
    /\ pc = "temp_open"
    /\ tempFile \in TempFiles
    /\ passFile = MissingCsvFile
    /\ delayFile = MissingCsvFile
    /\ Fresh

\* lines 66-89: the loop over the lines, then DataFrame(data_rows)
ReadLines ==
    /\ pc = "temp_open"
    /\ IF ReadError(tempFile) # "none"
       THEN /\ pc' = "temp_failed"
            /\ error' = ReadError(tempFile)
            /\ df' = df
       ELSE /\ pc' = "temp_read"
            /\ error' = error
            /\ df' = DataRows(tempFile.lines)
    /\ UNCHANGED <<inputs, sideBySide, tempLocals, csvLocals, results, outputs>>

\* line 96: the division 00 rows of the window
SelectStatewide ==
    /\ pc = "temp_read"
    /\ IF FilterError(df) # "none"
       THEN /\ pc' = "temp_failed"
            /\ error' = FilterError(df)
            /\ statewide' = statewide
       ELSE /\ pc' = "temp_statewide"
            /\ error' = error
            /\ statewide' = Division00Rows(df)
    /\ UNCHANGED <<inputs, sideBySide, df, fallback, dec_avg, csvLocals, results, outputs>>

\* lines 101-103: no division 00 row, take the division 01 rows
UseDivision01 ==
    /\ pc = "temp_statewide"
    /\ NoStatewide(statewide)
    /\ statewide' = Division01Rows(df)
    /\ fallback' = TRUE
    /\ pc' = "temp_selected"
    /\ UNCHANGED <<inputs, sideBySide, df, dec_avg, csvLocals, results, outputs, error>>

\* lines 106-118: the per-state means, resolved to state codes
AggregateByState ==
    /\ \/ pc = "temp_statewide" /\ ~NoStatewide(statewide)
       \/ pc = "temp_selected"
    /\ dec_avg' = ResolveStates(GroupMeans(statewide))
    /\ pc' = "temp_aggregated"
    /\ UNCHANGED <<inputs, sideBySide, df, statewide, fallback, csvLocals, results, outputs,
                   error>>

\* lines 122-133: the Hawaii row, and the returned columns
AddHawaii ==
    /\ pc = "temp_aggregated"
    /\ temp_df' = WithHawaii(dec_avg)
    /\ pc' = "temp_loaded"
    /\ UNCHANGED <<inputs, sideBySide, df, tempLocals, csvLocals, passengers_df, delays_df,
                   combined_df, outputs, error>>

NextTemp ==
    \/ ReadLines
    \/ SelectStatewide
    \/ UseDivision01
    \/ AggregateByState
    \/ AddHawaii

SpecTemp == InitTemp /\ [][NextTemp]_vars

-----------------------------------------------------------------------------
(* The passenger loader, step by step.                                     *)

InitPass ==
    /\ pc = "pass_open"
    /\ tempFile = MissingTempFile
    /\ passFile \in PassFiles
    /\ delayFile = MissingCsvFile
    /\ Fresh

\* line 139: read_csv
ReadPassengers ==
    /\ pc = "pass_open"
    /\ IF ReadCsvError(passFile) # "none"
       THEN /\ pc' = "pass_failed"
            /\ error' = ReadCsvError(passFile)
            /\ df' = df
       ELSE /\ pc' = "pass_read"
            /\ error' = error
            /\ df' = passFile.rows
    /\ UNCHANGED <<inputs, sideBySide, tempLocals, csvLocals, results, outputs>>

\* lines 142-145: the sums by state
SumPassengers ==
    /\ pc = "pass_read"
    /\ IF ColumnError(passFile) # "none"
       THEN /\ pc' = "pass_failed"
            /\ error' = ColumnError(passFile)
            /\ state_passengers' = state_passengers
       ELSE /\ pc' = "pass_summed"
            /\ error' = error
            /\ state_passengers' = PassengerSums(df)
    /\ UNCHANGED <<inputs, sideBySide, df, tempLocals, state_delays, results, outputs>>

\* lines 147-152: the travel volume, and the returned columns
AddTravelVolume ==
    /\ pc = "pass_summed"
    /\ passengers_df' = WithTravelVolume(state_passengers)
    /\ pc' = "pass_loaded"
    /\ UNCHANGED <<inputs, sideBySide, df, tempLocals, csvLocals, temp_df, delays_df,
                   combined_df, outputs, error>>

NextPass ==
    \/ ReadPassengers
    \/ SumPassengers
    \/ AddTravelVolume

SpecPass == InitPass /\ [][NextPass]_vars

-----------------------------------------------------------------------------
(* The delay loader, step by step.                                         *)

InitDelay ==
    /\ pc = "delay_open"
    /\ tempFile = MissingTempFile
    /\ passFile = MissingCsvFile
    /\ delayFile \in DelayFiles
    /\ Fresh

\* line 158: read_csv
ReadDelays ==
    /\ pc = "delay_open"
    /\ IF ReadCsvError(delayFile) # "none"
       THEN /\ pc' = "delay_failed"
            /\ error' = ReadCsvError(delayFile)
       ELSE /\ pc' = "delay_read"
            /\ error' = error
    /\ UNCHANGED <<inputs, sideBySide, df, tempLocals, csvLocals, results, outputs>>

\* lines 162-163: the weighted columns
WeightDelays ==
    /\ pc = "delay_read"
    /\ IF ColumnError(delayFile) # "none"
       THEN /\ pc' = "delay_failed"
            /\ error' = ColumnError(delayFile)
            /\ df' = df
       ELSE /\ pc' = "delay_weighted"
            /\ error' = error
            /\ df' = WeightedRows(delayFile.rows)
    /\ UNCHANGED <<inputs, sideBySide, tempLocals, csvLocals, results, outputs>>

\* lines 165-171: the sums by state
SumDelays ==
    /\ pc = "delay_weighted"
    /\ state_delays' = DelaySums(df)
    /\ pc' = "delay_summed"
    /\ UNCHANGED <<inputs, sideBySide, df, tempLocals, state_passengers, results, outputs,
                   error>>

\* lines 173-178: the two averages, and the returned columns
AverageDelays ==
    /\ pc = "delay_summed"
    /\ delays_df' = WithAverages(state_delays)
    /\ pc' = "delay_loaded"
    /\ UNCHANGED <<inputs, sideBySide, df, tempLocals, csvLocals, temp_df, passengers_df,
                   combined_df, outputs, error>>

NextDelay ==
    \/ ReadDelays
    \/ WeightDelays
    \/ SumDelays
    \/ AverageDelays

SpecDelay == InitDelay /\ [][NextDelay]_vars

-----------------------------------------------------------------------------
(* main(): the whole run.  An exception of a step ends the run there.      *)

Init ==
    /\ pc = "main_start"
    /\ tempFile \in MainTempFiles
    /\ passFile \in MainPassFiles
    /\ delayFile \in MainDelayFiles
    /\ Fresh

\* line 677
MainLoadTemperature ==
    /\ pc = "main_start"
    /\ IF LoadTemperatureError(tempFile) # "none"
       THEN /\ pc' = "main_failed"
            /\ error' = LoadTemperatureError(tempFile)
            /\ temp_df' = temp_df
       ELSE /\ pc' = "main_temperature"
            /\ error' = error
            /\ temp_df' = LoadTemperature(tempFile)
    /\ UNCHANGED <<inputs, sideBySide, df, tempLocals, csvLocals, passengers_df, delays_df,
                   combined_df, outputs>>

\* line 678
MainLoadPassengers ==
    /\ pc = "main_temperature"
    /\ IF LoadPassengersError(passFile) # "none"
       THEN /\ pc' = "main_failed"
            /\ error' = LoadPassengersError(passFile)
            /\ passengers_df' = passengers_df
       ELSE /\ pc' = "main_passengers"
            /\ error' = error
            /\ passengers_df' = LoadPassengers(passFile)
    /\ UNCHANGED <<inputs, sideBySide, df, tempLocals, csvLocals, temp_df, delays_df,
                   combined_df, outputs>>

\* line 679
MainLoadDelays ==
    /\ pc = "main_passengers"
    /\ IF LoadDelaysError(delayFile) # "none"
       THEN /\ pc' = "main_failed"
            /\ error' = LoadDelaysError(delayFile)
            /\ delays_df' = delays_df
       ELSE /\ pc' = "main_delays"
            /\ error' = error
            /\ delays_df' = LoadDelays(delayFile)
    /\ UNCHANGED <<inputs, sideBySide, df, tempLocals, csvLocals, temp_df, passengers_df,
                   combined_df, outputs>>

\* line 682
MainCombine ==
    /\ pc = "main_delays"
    /\ combined_df' = CombineDatasets(passengers_df, delays_df, temp_df)
    /\ pc' = "main_combined"
    /\ UNCHANGED <<inputs, sideBySide, df, tempLocals, csvLocals, temp_df, passengers_df,
                   delays_df, outputs, error>>

\* lines 685-686: combined_df.to_csv
MainSaveCsv ==
    /\ pc = "main_combined"
    /\ output_csv' = combined_df
    /\ pc' = "main_saved"
    /\ UNCHANGED <<inputs, sideBySide, df, tempLocals, csvLocals, results, dashboard, error>>

\* lines 701-712: the three maps, the HTML, and its file
MainSaveDashboard ==
    /\ pc = "main_saved"
    /\ dashboard' = TRUE
    /\ pc' = "main_done"
    /\ UNCHANGED <<inputs, sideBySide, df, tempLocals, csvLocals, results, output_csv, error>>

Next ==
    \/ MainLoadTemperature
    \/ MainLoadPassengers
    \/ MainLoadDelays
    \/ MainCombine
    \/ MainSaveCsv
    \/ MainSaveDashboard

Spec == Init /\ [][Next]_vars

\* main() on the temperature files of the loader's own runs, with a passenger
\* and a delay file that hold two rows of one state
TablePassFile ==
    [exists |-> TRUE, columns |-> TRUE,
     rows |-> <<[state_code |-> AL, nov_passengers |-> 100, dec_passengers |-> 50],
                [state_code |-> AL, nov_passengers |-> 200, dec_passengers |-> 75],
                [state_code |-> TX, nov_passengers |-> 100, dec_passengers |-> 50]>>]

TableDelayFile ==
    [exists |-> TRUE, columns |-> TRUE,
     rows |-> <<[state_code |-> AL, delay_pct |-> 10, avg_delay_minutes |-> 30,
                 total_flights |-> 100, delayed_flights |-> 10,
                 cancelled_flights |-> 2],
                [state_code |-> AL, delay_pct |-> 20, avg_delay_minutes |-> 45,
                 total_flights |-> 300, delayed_flights |-> 10,
                 cancelled_flights |-> 2],
                [state_code |-> HI, delay_pct |-> 10, avg_delay_minutes |-> 30,
                 total_flights |-> 100, delayed_flights |-> 10,
                 cancelled_flights |-> 2]>>]

InitTables ==
    /\ pc = "main_start"
    /\ tempFile \in TempFiles
    /\ passFile = TablePassFile
    /\ delayFile = TableDelayFile
    /\ Fresh

SpecTables == InitTables /\ [][Next]_vars

-----------------------------------------------------------------------------
(* The three loaders run side by side, in any interleaving of their steps, *)
(* each with its own local frame; combine_datasets runs when all three     *)
(* have returned.  An exception of a loader ends the run.                  *)

\* the lines of main's files and one division 01 record of Alabama
AnyOrderTempLines ==
    MainTempLines
    \cup {[ntokens |-> 13, code |-> <<"0","0","1","0","1","2","2","0","2","4">>,
           nov |-> 40, dec |-> 30, numeric |-> TRUE]}

AnyOrderTempFiles ==
    {[exists |-> TRUE, lines |-> l] :
        l \in SeqsUpTo(AnyOrderTempLines, MaxMainRows)}
    \cup {MissingTempFile}

InitAnyOrder ==
    /\ pc = "any_loading"
    /\ tempFile \in AnyOrderTempFiles
    /\ passFile \in MainPassFiles
    /\ delayFile \in MainDelayFiles
    /\ Fresh

\* lines 66-89
AnyReadLines ==
    /\ pc = "any_loading"
    /\ at.temp = "open"
    /\ IF ReadError(tempFile) # "none"
       THEN /\ pc' = "any_failed"
            /\ error' = ReadError(tempFile)
            /\ UNCHANGED <<at, df>>
       ELSE /\ at' = [at EXCEPT !.temp = "read"]
            /\ df' = DataRows(tempFile.lines)
            /\ UNCHANGED <<pc, error>>
    /\ UNCHANGED <<inputs, df_passengers, df_delays, tempLocals, csvLocals,
                   results, outputs>>

\* line 96
AnySelectStatewide ==
    /\ pc = "any_loading"
    /\ at.temp = "read"
    /\ IF FilterError(df) # "none"
       THEN /\ pc' = "any_failed"
            /\ error' = FilterError(df)
            /\ UNCHANGED <<at, statewide>>
       ELSE /\ at' = [at EXCEPT !.temp = "statewide"]
            /\ statewide' = Division00Rows(df)
            /\ UNCHANGED <<pc, error>>
    /\ UNCHANGED <<inputs, df, df_passengers, df_delays, fallback, dec_avg,
                   csvLocals, results, outputs>>

\* lines 101-103
AnyUseDivision01 ==
    /\ pc = "any_loading"
    /\ at.temp = "statewide"
    /\ NoStatewide(statewide)
    /\ statewide' = Division01Rows(df)
    /\ fallback' = TRUE
    /\ at' = [at EXCEPT !.temp = "selected"]
    /\ UNCHANGED <<pc, inputs, df, df_passengers, df_delays, dec_avg, csvLocals,
                   results, outputs, error>>

\* lines 106-118
AnyAggregateByState ==
    /\ pc = "any_loading"
    /\ \/ at.temp = "statewide" /\ ~NoStatewide(statewide)
       \/ at.temp = "selected"
    /\ dec_avg' = ResolveStates(GroupMeans(statewide))
    /\ at' = [at EXCEPT !.temp = "aggregated"]
    /\ UNCHANGED <<pc, inputs, df, df_passengers, df_delays, statewide, fallback,
                   csvLocals, results, outputs, error>>

\* lines 122-133
AnyAddHawaii ==
    /\ pc = "any_loading"
    /\ at.temp = "aggregated"
    /\ temp_df' = WithHawaii(dec_avg)
    /\ at' = [at EXCEPT !.temp = "loaded"]
    /\ UNCHANGED <<pc, inputs, df, df_passengers, df_delays, tempLocals,
                   csvLocals, passengers_df, delays_df, combined_df, outputs,
                   error>>

\* line 139
AnyReadPassengers ==
    /\ pc = "any_loading"
    /\ at.pass = "open"
    /\ IF ReadCsvError(passFile) # "none"
       THEN /\ pc' = "any_failed"
            /\ error' = ReadCsvError(passFile)
            /\ UNCHANGED <<at, df_passengers>>
       ELSE /\ at' = [at EXCEPT !.pass = "read"]
            /\ df_passengers' = passFile.rows
            /\ UNCHANGED <<pc, error>>
    /\ UNCHANGED <<inputs, df, df_delays, tempLocals, csvLocals, results,
                   outputs>>

\* lines 142-145
AnySumPassengers ==
    /\ pc = "any_loading"
    /\ at.pass = "read"
    /\ IF ColumnError(passFile) # "none"
       THEN /\ pc' = "any_failed"
            /\ error' = ColumnError(passFile)
            /\ UNCHANGED <<at, state_passengers>>
       ELSE /\ at' = [at EXCEPT !.pass = "summed"]
            /\ state_passengers' = PassengerSums(df_passengers)
            /\ UNCHANGED <<pc, error>>
    /\ UNCHANGED <<inputs, df, df_passengers, df_delays, tempLocals,
                   state_delays, results, outputs>>

\* lines 147-152
AnyAddTravelVolume ==
    /\ pc = "any_loading"
    /\ at.pass = "summed"
    /\ passengers_df' = WithTravelVolume(state_passengers)
    /\ at' = [at EXCEPT !.pass = "loaded"]
    /\ UNCHANGED <<pc, inputs, df, df_passengers, df_delays, tempLocals,
                   csvLocals, temp_df, delays_df, combined_df, outputs, error>>

\* line 158
AnyReadDelays ==
    /\ pc = "any_loading"
    /\ at.delay = "open"
    /\ IF ReadCsvError(delayFile) # "none"
       THEN /\ pc' = "any_failed"
            /\ error' = ReadCsvError(delayFile)
            /\ UNCHANGED <<at, df_delays>>
       ELSE /\ at' = [at EXCEPT !.delay = "read"]
            /\ df_delays' = delayFile.rows
            /\ UNCHANGED <<pc, error>>
    /\ UNCHANGED <<inputs, df, df_passengers, tempLocals, csvLocals, results,
                   outputs>>

\* lines 162-163
AnyWeightDelays ==
    /\ pc = "any_loading"
    /\ at.delay = "read"
    /\ IF ColumnError(delayFile) # "none"
       THEN /\ pc' = "any_failed"
            /\ error' = ColumnError(delayFile)
            /\ UNCHANGED <<at, df_delays>>
       ELSE /\ at' = [at EXCEPT !.delay = "weighted"]
            /\ df_delays' = WeightedRows(df_delays)
            /\ UNCHANGED <<pc, error>>
    /\ UNCHANGED <<inputs, df, df_passengers, tempLocals, csvLocals, results,
                   outputs>>

\* lines 165-171
AnySumDelays ==
    /\ pc = "any_loading"
    /\ at.delay = "weighted"
    /\ state_delays' = DelaySums(df_delays)
    /\ at' = [at EXCEPT !.delay = "summed"]
    /\ UNCHANGED <<pc, inputs, df, df_passengers, df_delays, tempLocals,
                   state_passengers, results, outputs, error>>

\* mutant: the delay loader keeps only the states that the temperature table
\* holds at that moment
AnyAverageDelays_ReadsTemperature ==
    /\ pc = "any_loading"
    /\ at.delay = "summed"
    /\ delays_df' =
         KeepRows(WithAverages(state_delays),
                  {j \in 1..Len(state_delays) :
                      \E i \in 1..Len(temp_df) :
                          temp_df[i].state_code = state_delays[j].state_code})
    /\ at' = [at EXCEPT !.delay = "loaded"]
    /\ UNCHANGED <<pc, inputs, df, df_passengers, df_delays, tempLocals,
                   csvLocals, temp_df, passengers_df, combined_df, outputs,
                   error>>

\* lines 173-178
AnyAverageDelays ==
    /\ pc = "any_loading"
    /\ at.delay = "summed"
    /\ delays_df' = WithAverages(state_delays)
    /\ at' = [at EXCEPT !.delay = "loaded"]
    /\ UNCHANGED <<pc, inputs, df, df_passengers, df_delays, tempLocals,
                   csvLocals, temp_df, passengers_df, combined_df, outputs,
                   error>>

\* line 682, once the three loaders have returned
AnyCombine ==
    /\ pc = "any_loading"
    /\ at = [temp |-> "loaded", pass |-> "loaded", delay |-> "loaded"]
    /\ combined_df' = CombineDatasets(passengers_df, delays_df, temp_df)
    /\ pc' = "any_combined"
    /\ UNCHANGED <<inputs, sideBySide, df, tempLocals, csvLocals, temp_df,
                   passengers_df, delays_df, outputs, error>>

NextAnyOrder ==
    \/ AnyReadLines
    \/ AnySelectStatewide
    \/ AnyUseDivision01
    \/ AnyAggregateByState
    \/ AnyAddHawaii
    \/ AnyReadPassengers
    \/ AnySumPassengers
    \/ AnyAddTravelVolume
    \/ AnyReadDelays
    \/ AnyWeightDelays
    \/ AnySumDelays
    \/ AnyAverageDelays
    \/ AnyCombine

SpecAnyOrder == InitAnyOrder /\ [][NextAnyOrder]_vars

-----------------------------------------------------------------------------
(* Properties.  They are stated on the input files and on the tables the   *)
(* run produced, not on the operators that computed them.                  *)

\* the state codes of a table
Codes(t) == {t[i].state_code : i \in 1..Len(t)}

\* the rows of a table with the given state code
RowsOf(t, c) == {i \in 1..Len(t) : t[i].state_code = c}

\* combine_datasets has returned
Combined == pc \in {"main_combined", "main_saved", "main_done"}

\* x is the float total / count
IsRatio(x, total, count) == x.k = "num" /\ x.n * count = x.d * total

\* the lines of the temperature file that are records (13 tokens or more)
\* of the given state FIPS and division with a year in 2020..2024
WindowLines(f, div) ==
    {i \in 1..Len(tempFile.lines) :
        /\ tempFile.lines[i].ntokens >= 13
        /\ Len(tempFile.lines[i].code) = 10
        /\ SubSeq(tempFile.lines[i].code, 1, 3) = f
        /\ SubSeq(tempFile.lines[i].code, 4, 5) = div
        /\ IntOf(SubSeq(tempFile.lines[i].code, 7, 10)) \in 2020..2024}

\* the state FIPS that occur in the temperature file
FileFips ==
    {SubSeq(tempFile.lines[i].code, 1, 3) : i \in 1..Len(tempFile.lines)}

\* some division div record of the window exists, for any state
AnyWindowLine(div) == \E f \in FileFips : WindowLines(f, div) # {}

\* the sums of the December and of the November values of the lines I
DecTotal(I) ==
    SumSeq([i \in 1..Len(tempFile.lines) |->
                IF i \in I THEN tempFile.lines[i].dec ELSE 0])

NovTotal(I) ==
    SumSeq([i \in 1..Len(tempFile.lines) |->
                IF i \in I THEN tempFile.lines[i].nov ELSE 0])

\* the state code of a 3-digit state FIPS "0NN": the table's entry for "NN"
CodeOfFips(f) == StateFipsGet(IF f[1] = "0" THEN <<f[2], f[3]>> ELSE f)[1]

\* the temperature table has exactly one row for code c, with the means of lines I
HasMeansOf(c, I) ==
    /\ Cardinality(RowsOf(temp_df, c)) = 1
    /\ \A j \in RowsOf(temp_df, c) :
         /\ IsRatio(temp_df[j].avg_dec_temperature, DecTotal(I), Cardinality(I))
         /\ IsRatio(temp_df[j].avg_nov_temperature, NovTotal(I), Cardinality(I))

\* C1: the combined table has exactly the state codes of the temperature
\* table: a code of the passenger or delay table that is not in the
\* temperature table is not in it, and a code of the temperature table that
\* is in neither other table has holiday_travel_volume = 0 and avg_delay_pct = 0.
C1_CombinedUniverse ==
    Combined =>
        /\ Codes(combined_df) = Codes(temp_df)
        /\ \A c \in (Codes(passengers_df) \cup Codes(delays_df)) \ Codes(temp_df) :
             c \notin Codes(combined_df)
        /\ \A c \in Codes(temp_df) \ (Codes(passengers_df) \cup Codes(delays_df)) :
             /\ RowsOf(combined_df, c) # {}
             /\ \A i \in RowsOf(combined_df, c) :
                  /\ combined_df[i].holiday_travel_volume = Num(0)
                  /\ combined_df[i].avg_delay_pct = Num(0)

\* C1 witness: a combined table where Texas has passengers and delays but no
\* temperature row, and Hawaii has a temperature row and nothing else
C1_Witness ==
    /\ Combined
    /\ TX \in (Codes(passengers_df) \cap Codes(delays_df)) \ Codes(temp_df)
    /\ HI \in Codes(temp_df) \ (Codes(passengers_df) \cup Codes(delays_df))
    /\ AL \in Codes(temp_df)

\* C2: when the file has a division 00 record in 2020..2024, each state FIPS
\* that resolves and has such records gets the arithmetic means of the
\* December and November values of exactly its division 00 records of
\* 2020..2024; other divisions and other years contribute nothing.
C2_MeansOfMatchingRows ==
    (pc = "temp_loaded" /\ AnyWindowLine(<<"0","0">>)) =>
        \A f \in FileFips :
            (CodeOfFips(f) # None /\ WindowLines(f, <<"0","0">>) # {}) =>
                HasMeansOf(CodeOfFips(f), WindowLines(f, <<"0","0">>))

\* C2 witness: Alabama with two division 00 records of the window whose
\* values differ (the November mean is 50.5)
C2_Witness ==
    /\ pc = "temp_loaded"
    /\ Cardinality(WindowLines(<<"0","0","1">>, <<"0","0">>)) = 2
    /\ \E j \in RowsOf(temp_df, AL) :
         /\ temp_df[j].avg_dec_temperature = Num(40)
         /\ temp_df[j].avg_nov_temperature = Frac(101, 2)

\* the records parsed from the file hold no division 00 row, of any year
NoDivision00Anywhere == \A i \in 1..Len(df) : df[i].division # <<"0","0">>

\* C3 as stated: the division 01 fallback runs only when the input has no
\* division 00 row in any year.
C3_FallbackOnlyWithoutDivision00 == fallback => NoDivision00Anywhere

\* the loader is past the choice of the division
DivisionChosen ==
    \/ pc = "temp_statewide" /\ statewide # <<>>
    \/ pc \in {"temp_selected", "temp_aggregated", "temp_loaded"}

\* C3 amended: the division 01 fallback runs exactly when the input has no
\* division 00 row with a year in 2020..2024; with such a row it does not
\* run and every contributing row is a division 00 row.
C3_FallbackOnlyWithoutDivision00InWindow ==
    DivisionChosen =>
        /\ fallback <=> ~AnyWindowLine(<<"0","0">>)
        /\ AnyWindowLine(<<"0","0">>) =>
             \A i \in 1..Len(statewide) : statewide[i].division = <<"0","0">>

\* C3 witness: the fallback ran on an input that holds a division 00 row
\* outside the window, and a division 01 row gave Alabama its means
C3_Witness ==
    /\ pc = "temp_loaded"
    /\ fallback
    /\ ~NoDivision00Anywhere
    /\ AL \in Codes(temp_df)

\* the division whose rows the loader aggregated
ChosenDivision == IF fallback THEN <<"0","1">> ELSE <<"0","0">>

\* C4: the synthetic Hawaii row (73.0, 75.0) is appended exactly when the
\* aggregation gave no 'HI' row; a real Hawaii row stays the only 'HI' row
\* and carries the means computed from the file.
C4_HawaiiIffAbsent ==
    pc = "temp_loaded" =>
        /\ Cardinality(RowsOf(temp_df, HI)) = 1
        /\ Len(temp_df) = Len(dec_avg) + (IF HI \in Codes(dec_avg) THEN 0 ELSE 1)
        /\ HI \in Codes(dec_avg) <=> WindowLines(<<"0","5","1">>, ChosenDivision) # {}
        /\ IF WindowLines(<<"0","5","1">>, ChosenDivision) # {}
           THEN HasMeansOf(HI, WindowLines(<<"0","5","1">>, ChosenDivision))
           ELSE temp_df[Len(temp_df)] = hawaii_row

\* C4 witness: the file gave a real Hawaii row, which is not the synthetic one
C4_Witness ==
    /\ pc = "temp_loaded"
    /\ HI \in Codes(dec_avg)
    /\ \E j \in RowsOf(temp_df, HI) : temp_df[j] # hawaii_row

\* the sum of the November and of the December passengers of state c in the file
NovPassengersOf(c) ==
    SumSeq([i \in 1..Len(passFile.rows) |->
                IF passFile.rows[i].state_code = c
                THEN passFile.rows[i].nov_passengers ELSE 0])

DecPassengersOf(c) ==
    SumSeq([i \in 1..Len(passFile.rows) |->
                IF passFile.rows[i].state_code = c
                THEN passFile.rows[i].dec_passengers ELSE 0])

\* C5: the passenger table has exactly one row per state code of the file
\* and none for other states; nov_passengers and dec_passengers are the sums
\* over the state's rows and holiday_travel_volume is their sum.
C5_PassengerSums ==
    pc = "pass_loaded" =>
        /\ Codes(passengers_df) = Codes(passFile.rows)
        /\ Len(passengers_df) = Cardinality(Codes(passFile.rows))
        /\ \A j \in 1..Len(passengers_df) :
             /\ passengers_df[j].nov_passengers
                    = NovPassengersOf(passengers_df[j].state_code)
             /\ passengers_df[j].dec_passengers
                    = DecPassengersOf(passengers_df[j].state_code)
             /\ passengers_df[j].holiday_travel_volume
                    = passengers_df[j].nov_passengers + passengers_df[j].dec_passengers

\* C5 witness: California rows 100/50 and 200/75 give 300, 125 and 425
C5_Witness ==
    /\ pc = "pass_loaded"
    /\ Len(passFile.rows) = 2
    /\ passengers_df = <<[state_code |-> CA, holiday_travel_volume |-> 425,
                          nov_passengers |-> 300, dec_passengers |-> 125]>>

\* sums over the rows of state c in the delay file
TotalFlightsOf(c) ==
    SumSeq([i \in 1..Len(delayFile.rows) |->
                IF delayFile.rows[i].state_code = c
                THEN delayFile.rows[i].total_flights ELSE 0])

DelayedFlightsOf(c) ==
    SumSeq([i \in 1..Len(delayFile.rows) |->
                IF delayFile.rows[i].state_code = c
                THEN delayFile.rows[i].delayed_flights ELSE 0])

WeightedDelayOf(c) ==
    SumSeq([i \in 1..Len(delayFile.rows) |->
                IF delayFile.rows[i].state_code = c
                THEN delayFile.rows[i].delay_pct * delayFile.rows[i].total_flights
                ELSE 0])

WeightedMinutesOf(c) ==
    SumSeq([i \in 1..Len(delayFile.rows) |->
                IF delayFile.rows[i].state_code = c
                THEN delayFile.rows[i].avg_delay_minutes
                         * delayFile.rows[i].delayed_flights
                ELSE 0])

\* C6: for a state whose total_flights and delayed_flights sums are positive,
\* avg_delay_pct = sum(delay_pct * total_flights) / sum(total_flights) and
\* avg_delay_minutes = sum(avg_delay_minutes * delayed_flights) /
\* sum(delayed_flights): the flight-weighted averages.
C6_WeightedAverages ==
    pc = "delay_loaded" =>
        \A c \in Codes(delayFile.rows) :
            (TotalFlightsOf(c) > 0 /\ DelayedFlightsOf(c) > 0) =>
                /\ RowsOf(delays_df, c) # {}
                /\ \A j \in RowsOf(delays_df, c) :
                     /\ IsRatio(delays_df[j].avg_delay_pct,
                                WeightedDelayOf(c), TotalFlightsOf(c))
                     /\ IsRatio(delays_df[j].avg_delay_minutes,
                                WeightedMinutesOf(c), DelayedFlightsOf(c))

\* C6 witness: Texas markets (10 %, 100 flights) and (20 %, 300 flights)
\* give 17.5 %, not the unweighted 15 %
C6_Witness ==
    /\ pc = "delay_loaded"
    /\ Len(delayFile.rows) = 2
    /\ \E j \in RowsOf(delays_df, TX) :
         /\ delays_df[j].total_flights = 400
         /\ delays_df[j].delayed_flights = 20
         /\ delays_df[j].avg_delay_pct = Frac(35, 2)
         /\ delays_df[j].avg_delay_pct # Num(15)

\* load_flight_delays has returned
DelaysLoaded ==
    pc \in {"main_delays", "main_combined", "main_saved", "main_done"}

\* C7: a state whose total_flights (delayed_flights) sum is 0 gets a defined
\* avg_delay_pct (avg_delay_minutes), not NaN or an infinity, in the delay
\* table and in the combined table.
C7_ZeroDenominatorIsDefined ==
    /\ DelaysLoaded =>
         \A j \in 1..Len(delays_df) :
             /\ IsFinite(delays_df[j].avg_delay_pct)
             /\ IsFinite(delays_df[j].avg_delay_minutes)
    /\ Combined =>
         \A i \in 1..Len(combined_df) :
             combined_df[i].state_code \in Codes(delays_df) =>
                 /\ IsFinite(combined_df[i].avg_delay_pct)
                 /\ IsFinite(combined_df[i].avg_delay_minutes)

\* C8: in the combined table a state without a delay row has 0 in every
\* delay column, and holiday_travel_volume == nov_passengers +
\* dec_passengers holds in every row.
C8_ZeroFillConvention ==
    Combined =>
        \A i \in 1..Len(combined_df) :
            /\ combined_df[i].state_code \notin Codes(delays_df) =>
                 /\ combined_df[i].avg_delay_pct = Num(0)
                 /\ combined_df[i].avg_delay_minutes = Num(0)
                 /\ combined_df[i].total_flights = Num(0)
                 /\ combined_df[i].delayed_flights = Num(0)
                 /\ combined_df[i].cancelled_flights = Num(0)
            /\ FEq(combined_df[i].holiday_travel_volume,
                   FAdd(combined_df[i].nov_passengers, combined_df[i].dec_passengers))

\* a loader fails on its file: the file is missing, a record of the
\* temperature file has a non-numeric monthly value, or a CSV header lacks a
\* column the loader reads
SomeLoaderFails ==
    \/ ~tempFile.exists
    \/ \E i \in 1..Len(tempFile.lines) :
         tempFile.lines[i].ntokens >= 13 /\ ~tempFile.lines[i].numeric
    \/ ~passFile.exists
    \/ ~passFile.columns
    \/ ~delayFile.exists
    \/ ~delayFile.columns

\* C9: when a loader fails, neither the CSV snapshot nor the dashboard is
\* ever written; the snapshot is written only after the three loaders and
\* the combiner have returned, and the dashboard only after the snapshot.
C9_FailFast ==
    /\ SomeLoaderFails => (output_csv = <<>> /\ ~dashboard /\ pc # "main_done")
    /\ pc = "main_failed" => (output_csv = <<>> /\ ~dashboard)
    /\ output_csv # <<>> =>
         /\ pc \in {"main_saved", "main_done"}
         /\ error = "none"
         /\ temp_df # <<>>
         /\ passFile.exists /\ passFile.columns
         /\ Codes(passengers_df) = Codes(passFile.rows)
         /\ delayFile.exists /\ delayFile.columns
         /\ Codes(delays_df) = Codes(delayFile.rows)
         /\ output_csv = combined_df
         /\ Codes(combined_df) = Codes(temp_df)
    /\ dashboard => (output_csv # <<>> /\ pc = "main_done")

\* C9 witness: the temperature and passenger loaders returned, the delay
\* loader failed, and the run ended with nothing written
C9_Witness ==
    /\ pc = "main_failed"
    /\ temp_df # <<>>
    /\ passengers_df # <<>>
    /\ error \in {"FileNotFoundError", "KeyError"}
    /\ output_csv = <<>>
    /\ ~dashboard

\* C10: with a division 00 record in 2020..2024 in the file, a state whose
\* records of the window are all division 01 gets no temperature row
\* (Hawaii gets the synthetic row), and the rows aggregated are of one
\* division only.
C10_FallbackIsGlobal ==
    /\ DivisionChosen =>
         \A i, j \in 1..Len(statewide) : statewide[i].division = statewide[j].division
    /\ (pc = "temp_loaded" /\ AnyWindowLine(<<"0","0">>)) =>
         \A f \in FileFips :
             (WindowLines(f, <<"0","1">>) # {} /\ WindowLines(f, <<"0","0">>) = {}) =>
                 IF CodeOfFips(f) = HI
                 THEN \A j \in RowsOf(temp_df, HI) : temp_df[j] = hawaii_row
                 ELSE CodeOfFips(f) \notin Codes(temp_df)

\* C10 witness: Hawaii has a division 00 record of the window, Alabama only
\* a division 01 record, and Alabama has no temperature row
C10_Witness ==
    /\ pc = "temp_loaded"
    /\ WindowLines(<<"0","5","1">>, <<"0","0">>) # {}
    /\ WindowLines(<<"0","0","1">>, <<"0","1">>) # {}
    /\ AL \notin Codes(temp_df)
    /\ HI \in Codes(temp_df)

\* load_noaa_temperature_data has returned to main
TemperatureLoaded ==
    pc \in {"main_temperature", "main_passengers", "main_delays",
            "main_combined", "main_saved", "main_done"}

\* C11: the temperature table has pairwise distinct state codes, and the
\* combined table has exactly one row per state code of the temperature table.
C11_NoDuplicateStateCodes ==
    /\ TemperatureLoaded =>
         \A i, j \in 1..Len(temp_df) :
             temp_df[i].state_code = temp_df[j].state_code => i = j
    /\ Combined =>
         /\ Codes(combined_df) = Codes(temp_df)
         /\ \A c \in Codes(temp_df) : Cardinality(RowsOf(combined_df, c)) = 1

\* C11 witness: Alabama has two records in the temperature file and two rows
\* in the passenger and in the delay file, and the combined table has one
\* row for AL and one for HI
C11_Witness ==
    /\ Combined
    /\ Cardinality(WindowLines(<<"0","0","1">>, ChosenDivision)) = 2
    /\ Cardinality(RowsOf(passFile.rows, AL)) = 2
    /\ Cardinality(RowsOf(delayFile.rows, AL)) = 2
    /\ Codes(combined_df) = {AL, HI}
    /\ Len(combined_df) = 2

\* the State Reference Table key of a 3-character state FIPS: "NN" for "0NN"
TableKey(f) == IF f[1] = "0" THEN <<f[2], f[3]>> ELSE f

\* the entries of the State Reference Table with key k
TableEntries(k) == {i \in 1..Len(STATE_FIPS) : STATE_FIPS[i][1] = k}

\* the state FIPS of the file that have a record among the aggregated rows
ContributingFips == {f \in FileFips : WindowLines(f, ChosenDivision) # {}}

\* C12: a state FIPS without an entry in the State Reference Table (such as
\* "000", "049", "100") is dropped and raises nothing; a state FIPS "0NN"
\* whose key "NN" is in the table gets that entry's code and name.
C12_UnknownFipsDropped ==
    pc \in {"temp_aggregated", "temp_loaded"} =>
        /\ error = "none"
        /\ \A j \in 1..Len(dec_avg) : dec_avg[j].state_code # None
        /\ \A f \in ContributingFips :
             IF TableEntries(TableKey(f)) = {}
             THEN \A j \in 1..Len(dec_avg) : dec_avg[j].state_fips # f
             ELSE \E j \in 1..Len(dec_avg) :
                    /\ dec_avg[j].state_fips = f
                    /\ \A i \in TableEntries(TableKey(f)) :
                         /\ dec_avg[j].state_code = STATE_FIPS[i][2]
                         /\ dec_avg[j].state_name = STATE_FIPS[i][3]

\* C12 witness: a record of "000", "049" or "100" was aggregated and dropped
\* while the Alabama record of the same file was resolved
C12_Witness ==
    /\ pc = "temp_loaded"
    /\ error = "none"
    /\ \E f \in {<<"0","0","0">>, <<"0","4","9">>, <<"1","0","0">>} :
         f \in ContributingFips
    /\ <<"0","0","1">> \in ContributingFips
    /\ Codes(dec_avg) = {AL}
    /\ Codes(temp_df) = {AL, HI}

\* the lines of the temperature file with 13 tokens or more
RecordLines ==
    {i \in 1..Len(tempFile.lines) : tempFile.lines[i].ntokens >= 13}

\* the read loop has ended without an exception
LinesRead ==
    pc \in {"temp_read", "temp_statewide", "temp_selected", "temp_aggregated",
            "temp_loaded"}

\* C13: no line makes the temperature loader fail with an IndexError: a
\* line with fewer than 13 tokens adds no row and the loop goes on, and the
\* slicing of the first token is safe for a first token of any length.
C13_NoIndexError ==
    /\ error # "IndexError"
    /\ LinesRead =>
         /\ Len(df) = Cardinality(RecordLines)
         /\ \A i \in 1..Len(df) :
              \E k \in RecordLines : df[i].code = tempFile.lines[k].code

\* the part of C13 about short lines alone
ShortLinesSkipped ==
    LinesRead =>
        /\ Len(df) = Cardinality(RecordLines)
        /\ \A i \in 1..Len(df) :
             \E k \in RecordLines : df[i].code = tempFile.lines[k].code

\* the combined table of main(), which runs the loaders one after the other
SequentialResult ==
    CombineDatasets(LoadPassengers(passFile), LoadDelays(delayFile),
                    LoadTemperature(tempFile))

\* C14: the loaders share no state, so whatever the order or interleaving
\* of their steps, the combined table is the one the sequential run gives
\* for the same files, and the files are as they were.
C14_OrderIndependent ==
    /\ pc = "any_combined" => combined_df = SequentialResult
    /\ at.temp = "open" => (df = <<>> /\ temp_df = <<>>)
    /\ at.pass = "open" => (df_passengers = <<>> /\ passengers_df = <<>>)
    /\ at.delay = "open" => (df_delays = <<>> /\ delays_df = <<>>)

\* C14 witness: the loaders, run side by side, have all returned and the
\* combined table holds Alabama's passengers and delays
C14_Witness ==
    /\ pc = "any_combined"
    /\ \E i \in RowsOf(combined_df, AL) :
         /\ combined_df[i].holiday_travel_volume = Num(150)
         /\ combined_df[i].avg_delay_pct = Num(10)

====
